---- MODULE Spec2Model ----
(***************************************************************************)
(* Decision-tree induction (ID3 / C4.5 / CART / CHAID) of gregkorneev/sem13 *)
(* as implemented twice: py/generate_results_table.py (plain names below)   *)
(* and py/plot_id3_tree.py (names prefixed plot_).                          *)
(*                                                                          *)
(* Python floats are modelled as exact rationals [num, den]; math.log2 is   *)
(* a fixed-point table that is additive over products, so a score that is   *)
(* mathematically zero is exactly zero here and every non-zero score of the *)
(* bounded inputs is far from both 0 and the 1e-9 threshold.  Rounding      *)
(* noise of the last float bit (which can only reorder exactly tied scores) *)
(* is not modelled.                                                         *)
(***************************************************************************)
EXTENDS Integers, Sequences, FiniteSets, TLC

VARIABLES rows, attr_names, algo, call, args, ret, frame

vars == <<rows, attr_names, algo, call, args, ret, frame>>

\* ---------------------------------------------------------------- bounds
\* rows of a data set handed to build_tree or split_by_attr
MaxLen == 3
\* rows of the training set of a build-then-predict run
MaxPredictTrain == 2
\* rows of the training set and of the test set of evaluate_algorithm
MaxEvalTrain == 2
MaxTest == 1

\* ---------------------------------------------------------------- universe
None == "None"
Header == <<"a1", "a2">>
Values == {"x", "y"}
Labels == {"Yes", "No"}
Algos == {"id3", "c45", "cart", "chaid"}
UnknownAlgo == "svm"

Range(s) == {s[i] : i \in 1..Len(s)}
Front(s) == SubSeq(s, 1, Len(s) - 1)
Last(s) == s[Len(s)]

SeqsUpTo(S, n) == UNION {[1..k -> S] : k \in 0..n}

\* one CSV row: attribute tokens in header order, then the class label
Rows == {<<v1, v2, l>> : v1 \in Values, v2 \in Values, l \in Labels}

\* lists of distinct attribute names
AttrLists == {s \in SeqsUpTo(Range(Header), Len(Header)) :
                \A i, j \in 1..Len(s) : i # j => s[i] # s[j]}

\* ---------------------------------------------------------------- floats
RECURSIVE Gcd(_, _)
Gcd(a, b) == IF b = 0 THEN a ELSE Gcd(b, a % b)

Abs(n) == IF n < 0 THEN -n ELSE n

\* the float n/d (d # 0), in lowest terms with a positive denominator
R(n, d) ==
    LET g == Gcd(Abs(n), Abs(d))
        s == IF d < 0 THEN -1 ELSE 1
    IN [num |-> s * (n \div g), den |-> s * (d \div g)]

Zero == [num |-> 0, den |-> 1]
One == [num |-> 1, den |-> 1]
RAdd(a, b) == R(a.num * b.den + b.num * a.den, a.den * b.den)
RSub(a, b) == R(a.num * b.den - b.num * a.den, a.den * b.den)
RMul(a, b) == R(a.num * b.num, a.den * b.den)
RDiv(a, b) == R(a.num * b.den, a.den * b.num)
RGt(a, b) == a.num * b.den > b.num * a.den
RIsZero(a) == a.num = 0

RECURSIVE DivPow10(_, _)
DivPow10(n, k) == IF k = 0 THEN n ELSE DivPow10(n \div 10, k - 1)

\* a <= 1e-k
RLeqPow10(a, k) == a.num <= DivPow10(a.den, k)

RECURSIVE RSum(_)
RSum(s) == IF s = <<>> THEN Zero ELSE RAdd(RSum(Front(s)), Last(s))

\* 1000 * log2(n) for a positive integer n with prime factors up to 7
RECURSIVE Log2Int(_)
Log2Int(n) ==
    IF n = 1 THEN 0
    ELSE IF n % 2 = 0 THEN 1000 + Log2Int(n \div 2)
    ELSE IF n % 3 = 0 THEN 1585 + Log2Int(n \div 3)
    ELSE IF n % 5 = 0 THEN 2322 + Log2Int(n \div 5)
    ELSE 2807 + Log2Int(n \div 7)

\* math.log2(p) for a positive float p
log2(p) == R(Log2Int(p.num) - Log2Int(p.den), 1000)

\* ---------------------------------------------------------------- dicts
\* a Python dict: its keys in insertion order and the key -> value map
EmptyDict == [keys |-> <<>>, val |-> <<>>]

Has(d, k) == \E i \in 1..Len(d.keys) : d.keys[i] = k

Put(d, k, v) ==
    IF Has(d, k) THEN [keys |-> d.keys, val |-> [d.val EXCEPT ![k] = v]]
    ELSE [keys |-> Append(d.keys, k), val |-> d.val @@ (k :> v)]

\* the dict's values, in key order
DictValues(d) == [i \in 1..Len(d.keys) |-> d.val[d.keys[i]]]

\* counter[k] += 1
CounterAdd(counter, k) ==
    Put(counter, k, IF Has(counter, k) THEN counter.val[k] + 1 ELSE 1)

\* collections.Counter(items)
RECURSIVE Counter(_)
Counter(items) ==
    IF items = <<>> THEN EmptyDict
    ELSE CounterAdd(Counter(Front(items)), Last(items))

\* ------------------------------------------- generate_results_table.py
\* load_dataset: an example is (attrs dict by column name, label)
load_dataset(rws) ==
    [i \in 1..Len(rws) |->
        [attrs |-> [c \in Range(Header) |->
                      rws[i][CHOOSE j \in 1..Len(Header) : Header[j] = c]],
         label |-> rws[i][Len(Header) + 1]]]

LabelsOf(examples) == [i \in 1..Len(examples) |-> examples[i].label]

entropy(labels) ==
    LET total == Len(labels)
        counter == Counter(labels)
        terms == [i \in 1..Len(counter.keys) |->
                    LET p == R(counter.val[counter.keys[i]], total)
                    IN IF RGt(p, Zero) THEN RMul(p, log2(p)) ELSE Zero]
    IN IF total = 0 THEN Zero ELSE RSub(Zero, RSum(terms))

gini(labels) ==
    LET total == Len(labels)
        counter == Counter(labels)
        terms == [i \in 1..Len(counter.keys) |->
                    LET p == R(counter.val[counter.keys[i]], total)
                    IN RMul(p, p)]
    IN IF total = 0 THEN Zero ELSE RSub(One, RSum(terms))

\* BucketAppend with the bucket overwritten instead of extended
BucketAppend_overwrite(buckets, v, ex) == Put(buckets, v, <<ex>>)

\* buckets[v].append(ex), on a dict of lists
BucketAppend(buckets, v, ex) ==
    Put(buckets, v, IF Has(buckets, v) THEN Append(buckets.val[v], ex)
                    ELSE <<ex>>)

RECURSIVE split_by_attr(_, _)
split_by_attr(examples, attr) ==
    IF examples = <<>> THEN EmptyDict
    ELSE BucketAppend(split_by_attr(Front(examples), attr),
                      Last(examples).attrs[attr], Last(examples))

information_gain(examples, attr) ==
    LET base_h == entropy(LabelsOf(examples))
        subsets == DictValues(split_by_attr(examples, attr))
        total == Len(examples)
        cond_h == RSum([i \in 1..Len(subsets) |->
                          RMul(R(Len(subsets[i]), total),
                               entropy(LabelsOf(subsets[i])))])
    IN RSub(base_h, cond_h)

split_info(examples, attr) ==
    LET subsets == DictValues(split_by_attr(examples, attr))
        total == Len(examples)
        terms == [i \in 1..Len(subsets) |->
                    LET p == R(Len(subsets[i]), total)
                    IN IF RGt(p, Zero) THEN RMul(p, log2(p)) ELSE Zero]
    IN RSub(Zero, RSum(terms))

gain_ratio(examples, attr) ==
    LET ig == information_gain(examples, attr)
        si == split_info(examples, attr)
    IN IF RIsZero(si) THEN Zero ELSE RDiv(ig, si)

gini_gain(examples, attr) ==
    LET base_g == gini(LabelsOf(examples))
        subsets == DictValues(split_by_attr(examples, attr))
        total == Len(examples)
        cond_g == RSum([i \in 1..Len(subsets) |->
                          RMul(R(Len(subsets[i]), total),
                               gini(LabelsOf(subsets[i])))])
    IN RSub(base_g, cond_g)

chi_square_score(examples, attr) ==
    LET buckets == split_by_attr(examples, attr)
        subsets == DictValues(buckets)
        total == Len(examples)
        label_counts == Counter(LabelsOf(examples))
        cell(subset, cls) ==
            LET subset_counts == Counter(LabelsOf(subset))
                expected == R(label_counts.val[cls] * Len(subset), total)
                observed == IF Has(subset_counts, cls)
                            THEN subset_counts.val[cls] ELSE 0
                diff == RSub(R(observed, 1), expected)
            IN IF RGt(expected, Zero)
               THEN RDiv(RMul(diff, diff), expected) ELSE Zero
        row(subset) == RSum([j \in 1..Len(label_counts.keys) |->
                               cell(subset, label_counts.keys[j])])
    IN IF buckets.keys = <<>> THEN Zero
       ELSE RSum([i \in 1..Len(subsets) |-> row(subsets[i])])

\* ---------- tree construction
\* TreeNode(is_leaf=True, label=...) and TreeNode(is_leaf=False, attr=...)
Leaf(label) ==
    [is_leaf |-> TRUE, label |-> label, attr |-> None, children |-> <<>>]

Decision(attr, children) ==
    [is_leaf |-> FALSE, label |-> None, attr |-> attr, children |-> children]

\* a raised exception, in place of a return value
Raise(kind) == [raised |-> kind]
IsRaised(x) == "raised" \in DOMAIN x

\* a value returned by a function that may raise instead
Returned(v) == [value |-> v]

\* first_max keeping the last key of maximal count
RECURSIVE first_max_last(_, _)
first_max_last(counter, n) ==
    IF n = 1 THEN counter.keys[1]
    ELSE IF counter.val[counter.keys[n]]
              >= counter.val[first_max_last(counter, n - 1)]
    THEN counter.keys[n]
    ELSE first_max_last(counter, n - 1)

\* max(items, key=count): the first key, in insertion order, of maximal count
RECURSIVE first_max(_, _)
first_max(counter, n) ==
    IF n = 1 THEN counter.keys[1]
    ELSE LET best == first_max(counter, n - 1)
             k == counter.keys[n]
         IN IF counter.val[k] > counter.val[best] THEN k ELSE best

majority_label(examples) ==
    LET labels == LabelsOf(examples)
        counter == Counter(labels)
    IN IF labels = <<>> THEN None
       ELSE first_max(counter, Len(counter.keys))

\* the if/elif chain of build_tree's loop body, for a known algo
criterion_score(examples, attr, alg) ==
    IF alg = "id3" THEN information_gain(examples, attr)
    ELSE IF alg = "c45" THEN gain_ratio(examples, attr)
    ELSE IF alg = "cart" THEN gini_gain(examples, attr)
    ELSE chi_square_score(examples, attr)

\* the end of one pass of build_tree's for-loop: keep the greater score
best_update(prev, attr, score) ==
    IF RGt(score, prev.best_score)
    THEN [best_attr |-> attr, best_score |-> score, raised |-> FALSE,
          evals |-> prev.evals + 1]
    ELSE [prev EXCEPT !.evals = @ + 1]

\* one pass of build_tree's for-loop from the loop state prev
best_step(prev, examples, attr, alg) ==
    IF prev.raised THEN prev
    ELSE IF alg \notin Algos THEN [prev EXCEPT !.raised = TRUE]
    ELSE best_update(prev, attr, criterion_score(examples, attr, alg))

\* build_tree's for-loop after n iterations; evals counts criterion calls
RECURSIVE best_loop(_, _, _, _)
best_loop(examples, names, alg, n) ==
    IF n = 0
    THEN [best_attr |-> None, best_score |-> R(-1, 1), raised |-> FALSE,
          evals |-> 0]
    ELSE best_step(best_loop(examples, names, alg, n - 1), examples, names[n],
                   alg)

RECURSIVE SumNat(_)
SumNat(s) == IF s = <<>> THEN 0 ELSE SumNat(Front(s)) + Last(s)

\* build_tree, returning [ret, evals]: the tree (or the exception raised) and
\* the number of criterion scores evaluated on the way.  build_tree_run is the
\* two early returns, build_tree_best the code after the for-loop,
\* build_tree_split the loop over the buckets, build_tree_node the return
RECURSIVE build_tree_run(_, _, _)

build_tree_node(best, buckets, child) ==
    IF \E value \in Range(buckets.keys) : IsRaised(child[value].ret)
    THEN [ret |-> Raise("ValueError"),
          evals |-> best.evals + SumNat([i \in 1..Len(buckets.keys) |->
                                           child[buckets.keys[i]].evals])]
    ELSE [ret |-> Decision(best.best_attr,
                           [value \in Range(buckets.keys) |-> child[value].ret]),
          evals |-> best.evals + SumNat([i \in 1..Len(buckets.keys) |->
                                           child[buckets.keys[i]].evals])]

\* build_tree_split recursing on the node's examples instead of the bucket
build_tree_split_all(examples, remaining_attrs, alg, best, buckets) ==
    build_tree_node(best, buckets,
        [value \in Range(buckets.keys) |->
            build_tree_run(examples, remaining_attrs, alg)])

build_tree_split(examples, remaining_attrs, alg, best, buckets) ==
    build_tree_node(best, buckets,
        [value \in Range(buckets.keys) |->
            IF buckets.val[value] = <<>>
            THEN [ret |-> Leaf(majority_label(examples)), evals |-> 0]
            ELSE build_tree_run(buckets.val[value], remaining_attrs, alg)])

build_tree_best(examples, names, alg, best) ==
    IF best.raised
    THEN [ret |-> Raise("ValueError"), evals |-> best.evals]
    ELSE IF best.best_attr = None
    THEN [ret |-> Leaf(majority_label(examples)), evals |-> best.evals]
    ELSE build_tree_split(examples,
                          SelectSeq(names, LAMBDA a : a # best.best_attr),
                          alg, best, split_by_attr(examples, best.best_attr))

\* build_tree_run without the pure-class return
build_tree_run_no_pure(examples, names, alg) ==
    IF names = <<>>
    THEN [ret |-> Leaf(majority_label(examples)), evals |-> 0]
    ELSE build_tree_best(examples, names, alg,
                         best_loop(examples, names, alg, Len(names)))

build_tree_run(examples, names, alg) ==
    IF Cardinality(Range(LabelsOf(examples))) = 1
    THEN [ret |-> Leaf(LabelsOf(examples)[1]), evals |-> 0]
    ELSE IF names = <<>>
    THEN [ret |-> Leaf(majority_label(examples)), evals |-> 0]
    ELSE build_tree_best(examples, names, alg,
                         best_loop(examples, names, alg, Len(names)))

build_tree(examples, names, alg) == build_tree_run(examples, names, alg).ret

\* ---------- prediction and evaluation
\* predict_walk returning None, not default_label, on a missing branch
RECURSIVE predict_walk_none(_, _, _)
predict_walk_none(node, attrs, default_label) ==
    IF node.is_leaf
    THEN [visited |-> <<node>>, missing |-> FALSE, ret |-> node.label]
    ELSE IF node.attr \in DOMAIN attrs
            /\ attrs[node.attr] \in DOMAIN node.children
    THEN [visited |-> <<node>>
                      \o predict_walk_none(node.children[attrs[node.attr]],
                                           attrs, default_label).visited,
          missing |-> predict_walk_none(node.children[attrs[node.attr]],
                                        attrs, default_label).missing,
          ret |-> predict_walk_none(node.children[attrs[node.attr]],
                                    attrs, default_label).ret]
    ELSE [visited |-> <<node>>, missing |-> TRUE, ret |-> None]

\* predict_one's walk: the nodes visited, whether the walk ended on a missing
\* branch, and the value returned
RECURSIVE predict_walk(_, _, _)

\* the walk from node, given the walk from the child it descends to
predict_descend(node, rest) ==
    [visited |-> <<node>> \o rest.visited, missing |-> rest.missing,
     ret |-> rest.ret]

\* node.children[val] if val is a key, else the default
predict_lookup(node, val, attrs, default_label) ==
    IF val \in DOMAIN node.children
    THEN predict_descend(node, predict_walk(node.children[val], attrs,
                                            default_label))
    ELSE [visited |-> <<node>>, missing |-> TRUE, ret |-> default_label]

predict_walk(node, attrs, default_label) ==
    IF node.is_leaf
    THEN [visited |-> <<node>>, missing |-> FALSE, ret |-> node.label]
    ELSE predict_lookup(node,
             IF node.attr \in DOMAIN attrs THEN attrs[node.attr] ELSE None,
             attrs, default_label)

predict_one(node, attrs, default_label) ==
    predict_walk(node, attrs, default_label).ret

RECURSIVE count_nodes(_)
count_nodes(n) ==
    LET keys == CHOOSE s \in [1..Cardinality(DOMAIN n.children) -> DOMAIN n.children] :
                    Range(s) = DOMAIN n.children
    IN 1 + SumNat([i \in 1..Len(keys) |-> count_nodes(n.children[keys[i]])])

\* sum(1 for t, p in zip(y_true, y_pred) if cond(t, p))
CountPairs(y_true, y_pred, cond(_, _)) ==
    Cardinality({i \in 1..Len(y_true) : cond(y_true[i], y_pred[i])})

\* Python's a / b on floats
PyDiv(a, b) == IF RIsZero(b) THEN Raise("ZeroDivisionError") ELSE RDiv(a, b)

\* f1_harmonic without the precision + recall > 0 guard
f1_harmonic_unguarded(precision, recall) ==
    PyDiv(RMul(R(2, 1), RMul(precision, recall)), RAdd(precision, recall))

\* f1 = 2 * precision * recall / (precision + recall), guarded
f1_harmonic(precision, recall) ==
    IF RGt(RAdd(precision, recall), Zero)
    THEN PyDiv(RMul(R(2, 1), RMul(precision, recall)), RAdd(precision, recall))
    ELSE Zero

\* the F1 branch of evaluate_algorithm
f1_score(tp, fp, fn) ==
    IF tp = 0 /\ (fp > 0 \/ fn > 0) THEN Zero
    ELSE f1_harmonic(IF tp + fp > 0 THEN RDiv(R(tp, 1), R(tp + fp, 1)) ELSE Zero,
                     IF tp + fn > 0 THEN RDiv(R(tp, 1), R(tp + fn, 1)) ELSE Zero)

\* evaluate_algorithm after the prediction loop: the metrics from y_true, y_pred
evaluate_metrics(tree, y_true, y_pred, tp, fp, fn) ==
    [tree |-> tree, y_true |-> y_true, y_pred |-> y_pred,
     tp |-> tp, fp |-> fp, fn |-> fn,
     accuracy |-> IF Len(y_true) > 0
                  THEN PyDiv(R(CountPairs(y_true, y_pred, LAMBDA t, p : t = p), 1),
                             R(Len(y_true), 1))
                  ELSE Zero,
     f1 |-> f1_score(tp, fp, fn),
     nodes |-> count_nodes(tree)]

\* the tp / fp / fn counts for positive_label
evaluate_counts(tree, y_true, y_pred, positive_label) ==
    evaluate_metrics(tree, y_true, y_pred,
        CountPairs(y_true, y_pred,
                   LAMBDA t, p : t = positive_label /\ p = positive_label),
        CountPairs(y_true, y_pred,
                   LAMBDA t, p : t # positive_label /\ p = positive_label),
        CountPairs(y_true, y_pred,
                   LAMBDA t, p : t = positive_label /\ p # positive_label))

\* one pass of the prediction loop: pred, replaced by default_label when None
evaluate_pred(pred, default_label) ==
    IF pred = None THEN default_label ELSE pred

\* evaluate_tree without the early return on an empty test set
evaluate_tree_no_return(tree, default_label, test_examples, positive_label) ==
    IF IsRaised(tree) THEN [tree |-> tree]
    ELSE evaluate_counts(tree, LabelsOf(test_examples),
             [i \in 1..Len(test_examples) |->
                 evaluate_pred(predict_one(tree, test_examples[i].attrs,
                                           default_label), default_label)],
             positive_label)

\* evaluate_algorithm once the tree is built
evaluate_tree(tree, default_label, test_examples, positive_label) ==
    IF IsRaised(tree) THEN [tree |-> tree]
    ELSE IF test_examples = <<>>
    THEN [tree |-> tree, accuracy |-> Zero, f1 |-> Zero, nodes |-> 0]
    ELSE evaluate_counts(tree, LabelsOf(test_examples),
             [i \in 1..Len(test_examples) |->
                 evaluate_pred(predict_one(tree, test_examples[i].attrs,
                                           default_label), default_label)],
             positive_label)

\* evaluate_algorithm's locals at its return (elapsed time is not modelled)
evaluate_frame(train_examples, test_examples, names, alg, positive_label) ==
    evaluate_tree(build_tree(train_examples, names, alg),
                  majority_label(train_examples), test_examples, positive_label)

\* what evaluate_algorithm returns for the locals f, or the exception raised
evaluate_return(f) ==
    IF IsRaised(f.tree) THEN f.tree
    ELSE IF IsRaised(f.f1) THEN f.f1
    ELSE [accuracy |-> f.accuracy, f1 |-> f.f1, nodes |-> f.nodes]

evaluate_algorithm(train_examples, test_examples, names, alg, positive_label) ==
    evaluate_return(evaluate_frame(train_examples, test_examples, names, alg,
                                   positive_label))

\* ------------------------------------------------------ plot_id3_tree.py
\* an absent attribute index (Python None where an index is expected)
NoneIdx == 0 - 1

\* load_dataset: an example is {"attrs": the row without its last token,
\* "label": the last token}
plot_load_dataset(rws) ==
    [i \in 1..Len(rws) |->
        [attrs |-> SubSeq(rws[i], 1, Len(rws[i]) - 1), label |-> Last(rws[i])]]

\* the label -> count dict built by entropy, gini_impurity and majority_label
plot_freq(examples) == Counter(LabelsOf(examples))

plot_entropy(examples) ==
    LET freq == plot_freq(examples)
        n == Len(examples)
        terms == [i \in 1..Len(freq.keys) |->
                    LET p == R(freq.val[freq.keys[i]], n)
                    IN IF RGt(p, Zero) THEN RMul(p, log2(p)) ELSE Zero]
    IN IF examples = <<>> THEN Zero ELSE RSub(Zero, RSum(terms))

RECURSIVE plot_split_by_attr(_, _)
plot_split_by_attr(examples, attr_index) ==
    IF examples = <<>> THEN EmptyDict
    ELSE BucketAppend(plot_split_by_attr(Front(examples), attr_index),
                      Last(examples).attrs[attr_index + 1], Last(examples))

plot_information_gain(examples, attr_index) ==
    LET base == plot_entropy(examples)
        subsets == DictValues(plot_split_by_attr(examples, attr_index))
        n == Len(examples)
        cond == RSum([i \in 1..Len(subsets) |->
                        RMul(R(Len(subsets[i]), n), plot_entropy(subsets[i]))])
    IN IF examples = <<>> THEN Zero ELSE RSub(base, cond)

plot_split_info(examples, attr_index) ==
    LET subsets == DictValues(plot_split_by_attr(examples, attr_index))
        n == Len(examples)
        terms == [i \in 1..Len(subsets) |->
                    LET p == R(Len(subsets[i]), n)
                    IN IF RGt(p, Zero) THEN RMul(p, log2(p)) ELSE Zero]
    IN RSub(Zero, RSum(terms))

plot_gain_ratio(examples, attr_index) ==
    LET ig == plot_information_gain(examples, attr_index)
        si == plot_split_info(examples, attr_index)
    IN IF RLeqPow10(si, 12) THEN Zero ELSE RDiv(ig, si)

plot_gini_impurity(examples) ==
    LET freq == plot_freq(examples)
        n == Len(examples)
        terms == [i \in 1..Len(freq.keys) |->
                    LET p == R(freq.val[freq.keys[i]], n)
                    IN RMul(p, p)]
    IN IF examples = <<>> THEN Zero ELSE RSub(One, RSum(terms))

plot_gini_gain(examples, attr_index) ==
    LET base == plot_gini_impurity(examples)
        subsets == DictValues(plot_split_by_attr(examples, attr_index))
        n == Len(examples)
        cond == RSum([i \in 1..Len(subsets) |->
                        RMul(R(Len(subsets[i]), n), plot_gini_impurity(subsets[i]))])
    IN IF examples = <<>> THEN Zero ELSE RSub(base, cond)

\* sorted(set of labels): labels in alphabetical order
SortedLabels == <<"No", "Yes">>

plot_chi_square_score(examples, attr_index) ==
    LET subsets == plot_split_by_attr(examples, attr_index)
        classes == SelectSeq(SortedLabels,
                             LAMBDA c : c \in Range(LabelsOf(examples)))
        values == subsets.keys
        O == [i \in 1..Len(values) |-> [j \in 1..Len(classes) |->
                Len(SelectSeq(subsets.val[values[i]],
                              LAMBDA ex : ex.label = classes[j]))]]
        row_sum == [i \in 1..Len(values) |-> SumNat(O[i])]
        col_sum == [j \in 1..Len(classes) |->
                      SumNat([i \in 1..Len(values) |-> O[i][j]])]
        total == SumNat(row_sum)
        cell(i, j) ==
            LET expected == R(row_sum[i] * col_sum[j], total)
                diff == RSub(R(O[i][j], 1), expected)
            IN IF RGt(expected, Zero)
               THEN RDiv(RMul(diff, diff), expected) ELSE Zero
    IN IF subsets.keys = <<>> THEN Zero
       ELSE IF total = 0 THEN Zero
       ELSE RSum([i \in 1..Len(values) |->
                    RSum([j \in 1..Len(classes) |-> cell(i, j)])])

\* max() of an empty sequence raises ValueError; otherwise [value |-> label]
plot_majority_label(examples) ==
    LET freq == plot_freq(examples)
    IN IF freq.keys = <<>> THEN Raise("ValueError")
       ELSE Returned(first_max(freq, Len(freq.keys)))

\* Node(is_leaf=True, label=...)
plot_Leaf(label) ==
    [is_leaf |-> TRUE, label |-> label, attr_index |-> NoneIdx,
     attr_name |-> None, children |-> <<>>]

\* Node(is_leaf=False, label=attr_names[i], attr_index=i, attr_name=attr_names[i])
plot_Decision(names, attr_index, children) ==
    [is_leaf |-> FALSE, label |-> names[attr_index + 1],
     attr_index |-> attr_index, attr_name |-> names[attr_index + 1],
     children |-> children]

plot_criterion_score(examples, idx, alg) ==
    IF alg = "id3" THEN plot_information_gain(examples, idx)
    ELSE IF alg = "c45" THEN plot_gain_ratio(examples, idx)
    ELSE IF alg = "cart" THEN plot_gini_gain(examples, idx)
    ELSE plot_chi_square_score(examples, idx)

\* one pass of choose_best_attribute's for-loop from the loop state prev
plot_best_step(prev, examples, idx, alg) ==
    IF prev.raised THEN prev
    ELSE IF alg \notin Algos THEN [prev EXCEPT !.raised = TRUE]
    ELSE best_update(prev, idx, plot_criterion_score(examples, idx, alg))

\* choose_best_attribute's for-loop after n iterations
RECURSIVE plot_best_loop(_, _, _, _)
plot_best_loop(examples, available_attrs, alg, n) ==
    IF n = 0
    THEN [best_attr |-> NoneIdx, best_score |-> R(-1, 1), raised |-> FALSE,
          evals |-> 0]
    ELSE plot_best_step(plot_best_loop(examples, available_attrs, alg, n - 1),
                        examples, available_attrs[n], alg)

\* choose_best_attribute's return after the loop, as [ret, raised, evals]:
\* ret is the index chosen or NoneIdx
plot_choose_return(best) ==
    IF best.raised
    THEN [ret |-> NoneIdx, raised |-> TRUE, evals |-> best.evals]
    ELSE IF best.best_attr = NoneIdx \/ RLeqPow10(best.best_score, 9)
    THEN [ret |-> NoneIdx, raised |-> FALSE, evals |-> best.evals]
    ELSE [ret |-> best.best_attr, raised |-> FALSE, evals |-> best.evals]

plot_choose_best_attribute(examples, names, available_attrs, alg) ==
    plot_choose_return(plot_best_loop(examples, available_attrs, alg,
                                      Len(available_attrs)))

\* Leaf(majority_label(examples)), or the exception majority_label raises
plot_majority_leaf(examples) ==
    LET label == plot_majority_label(examples)
    IN IF IsRaised(label) THEN label ELSE plot_Leaf(label.value)

\* build_tree, returning [ret, evals] and cut up as build_tree_run is
RECURSIVE plot_build_tree_run(_, _, _, _)

plot_build_tree_node(names, best, subsets, child) ==
    IF \E value \in Range(subsets.keys) : IsRaised(child[value].ret)
    THEN [ret |-> Raise("ValueError"),
          evals |-> best.evals + SumNat([i \in 1..Len(subsets.keys) |->
                                           child[subsets.keys[i]].evals])]
    ELSE [ret |-> plot_Decision(names, best.ret,
                      [value \in Range(subsets.keys) |-> child[value].ret]),
          evals |-> best.evals + SumNat([i \in 1..Len(subsets.keys) |->
                                           child[subsets.keys[i]].evals])]

plot_build_tree_split(examples, names, new_available, alg, best, subsets) ==
    plot_build_tree_node(names, best, subsets,
        [value \in Range(subsets.keys) |->
            IF subsets.val[value] = <<>>
            THEN [ret |-> plot_majority_leaf(examples), evals |-> 0]
            ELSE plot_build_tree_run(subsets.val[value], names, new_available,
                                     alg)])

plot_build_tree_best(examples, names, available_attrs, alg, best) ==
    IF best.raised
    THEN [ret |-> Raise("ValueError"), evals |-> best.evals]
    ELSE IF best.ret = NoneIdx
    THEN [ret |-> plot_majority_leaf(examples), evals |-> best.evals]
    ELSE plot_build_tree_split(examples, names,
             SelectSeq(available_attrs, LAMBDA i : i # best.ret), alg, best,
             plot_split_by_attr(examples, best.ret))

plot_build_tree_run(examples, names, available_attrs, alg) ==
    IF Cardinality(Range(LabelsOf(examples))) = 1
    THEN [ret |-> plot_Leaf(CHOOSE l \in Range(LabelsOf(examples)) : TRUE),
          evals |-> 0]
    ELSE IF available_attrs = <<>> \/ examples = <<>>
    THEN [ret |-> plot_majority_leaf(examples), evals |-> 0]
    ELSE plot_build_tree_best(examples, names, available_attrs, alg,
             plot_choose_best_attribute(examples, names, available_attrs, alg))

plot_build_tree(examples, names, available_attrs, alg) ==
    plot_build_tree_run(examples, names, available_attrs, alg).ret

\* ---------- build_tree one activation at a time
\* The call stack of build_tree: one activation record per invocation in
\* progress, the innermost last.  An activation is at its "entry", in its
\* "loop" over the buckets (node built so far, bucket values still todo), at
\* its "return" with the value it returns, or has hit a "raise".
Activation(examples, names) ==
    [pc |-> "entry", examples |-> examples, attr_names |-> names]

ReturnOf(act, value) ==
    IF IsRaised(value) THEN [pc |-> "raise"]
    ELSE [pc |-> "return", attr_names |-> act.attr_names, value |-> value]

\* remaining_attrs keeping the attribute just used
build_tree_remaining_all(names, best_attr) == names

\* remaining_attrs = [a for a in attr_names if a != best_attr]
build_tree_remaining(names, best_attr) ==
    SelectSeq(names, LAMBDA a : a # best_attr)

\* node = TreeNode(is_leaf=False, attr=best_attr) with its buckets and
\* remaining_attrs, before the loop over the buckets
build_tree_enter_loop(act, best_attr, buckets) ==
    [pc |-> "loop", examples |-> act.examples, attr_names |-> act.attr_names,
     node |-> Decision(best_attr, <<>>), buckets |-> buckets,
     remaining_attrs |-> build_tree_remaining(act.attr_names, best_attr),
     todo |-> buckets.keys]

\* the code after the for-loop over the attributes
build_tree_enter_best(act, best) ==
    IF best.raised THEN [pc |-> "raise"]
    ELSE IF best.best_attr = None
    THEN ReturnOf(act, Leaf(majority_label(act.examples)))
    ELSE build_tree_enter_loop(act, best.best_attr,
                               split_by_attr(act.examples, best.best_attr))

\* an activation run from its entry to its first return, raise or loop
build_tree_enter(act, alg) ==
    IF Cardinality(Range(LabelsOf(act.examples))) = 1
    THEN ReturnOf(act, Leaf(LabelsOf(act.examples)[1]))
    ELSE IF act.attr_names = <<>>
    THEN ReturnOf(act, Leaf(majority_label(act.examples)))
    ELSE build_tree_enter_best(act,
             best_loop(act.examples, act.attr_names, alg, Len(act.attr_names)))

\* node.children[value] = child, and on to the next bucket
AddChild(act, child) ==
    [act EXCEPT !.node.children = (Head(act.todo) :> child) @@ @,
                !.todo = Tail(@)]

\* new_available = [i for i in available_attrs if i != best_attr]
plot_build_tree_remaining(available_attrs, best_attr) ==
    SelectSeq(available_attrs, LAMBDA i : i # best_attr)

plot_Activation(examples, available_attrs) ==
    [pc |-> "entry", examples |-> examples, attr_names |-> available_attrs]

plot_build_tree_enter_loop(act, names, best_attr, subsets) ==
    [pc |-> "loop", examples |-> act.examples, attr_names |-> act.attr_names,
     node |-> plot_Decision(names, best_attr, <<>>), buckets |-> subsets,
     remaining_attrs |-> plot_build_tree_remaining(act.attr_names, best_attr),
     todo |-> subsets.keys]

plot_build_tree_enter_best(act, names, best) ==
    IF best.raised THEN [pc |-> "raise"]
    ELSE IF best.ret = NoneIdx
    THEN ReturnOf(act, plot_majority_leaf(act.examples))
    ELSE plot_build_tree_enter_loop(act, names, best.ret,
                                    plot_split_by_attr(act.examples, best.ret))

plot_build_tree_enter(act, names, alg) ==
    IF Cardinality(Range(LabelsOf(act.examples))) = 1
    THEN ReturnOf(act, plot_Leaf(CHOOSE l \in Range(LabelsOf(act.examples)) : TRUE))
    ELSE IF act.attr_names = <<>> \/ act.examples = <<>>
    THEN ReturnOf(act, plot_majority_leaf(act.examples))
    ELSE plot_build_tree_enter_best(act, names,
             plot_choose_best_attribute(act.examples, names, act.attr_names,
                                        alg))

\* ---------------------------------------------------------------- machine
InitOf(maxlen, attr_lists) ==
    /\ rows \in SeqsUpTo(Rows, maxlen)
    /\ attr_names \in attr_lists
    /\ algo \in Algos \cup {UnknownAlgo}
    /\ call = "main"
    /\ args = <<>>
    /\ ret = None
    /\ frame = <<>>

Init == InitOf(MaxLen, AttrLists)

\* generate_results_table.build_tree(examples, attr_names, algo)
CallBuildTree ==
    /\ call = "main"
    /\ LET examples == load_dataset(rows)
           run == build_tree_run(examples, attr_names, algo)
       IN /\ args' = <<examples, attr_names, algo>>
          /\ ret' = run.ret
          /\ frame' = [evals |-> run.evals]
    /\ call' = "build_tree"
    /\ UNCHANGED <<rows, attr_names, algo>>

\* generate_results_table.split_by_attr(examples, attr)
CallSplit ==
    /\ call = "main"
    /\ \E attr \in Range(Header) :
          /\ args' = <<load_dataset(rows), attr>>
          /\ ret' = split_by_attr(load_dataset(rows), attr)
    /\ call' = "split_by_attr"
    /\ frame' = <<>>
    /\ UNCHANGED <<rows, attr_names, algo>>

\* plot_id3_tree.split_by_attr(examples, attr_index)
CallPlotSplit ==
    /\ call = "main"
    /\ \E attr_index \in 0..(Len(Header) - 1) :
          /\ args' = <<plot_load_dataset(rows), attr_index>>
          /\ ret' = plot_split_by_attr(plot_load_dataset(rows), attr_index)
    /\ call' = "plot_split_by_attr"
    /\ frame' = <<>>
    /\ UNCHANGED <<rows, attr_names, algo>>

\* the 0-based column index of an attribute name
IndexOf(name) == (CHOOSE j \in 1..Len(Header) : Header[j] = name) - 1

\* plot_id3_tree.build_tree(examples, attr_names, available_attrs, algo)
CallPlotBuildTree ==
    /\ call = "main"
    /\ LET examples == plot_load_dataset(rows)
           available_attrs == [i \in 1..Len(attr_names) |-> IndexOf(attr_names[i])]
           run == plot_build_tree_run(examples, Header, available_attrs, algo)
       IN /\ args' = <<examples, Header, available_attrs, algo>>
          /\ ret' = run.ret
          /\ frame' = [evals |-> run.evals]
    /\ call' = "plot_build_tree"
    /\ UNCHANGED <<rows, attr_names, algo>>

\* attribute mappings a caller may pass to predict_one
Queries == [Range(Header) -> Values]

\* generate_results_table.predict_one(tree, attrs, default_label) on the tree
\* build_tree returned
CallPredictOne ==
    /\ call = "build_tree"
    /\ ~IsRaised(ret)
    /\ \E attrs \in Queries, default_label \in Labels \cup {None} :
          LET walk == predict_walk(ret, attrs, default_label)
          IN /\ args' = <<ret, attrs, default_label>>
             /\ ret' = walk.ret
             /\ frame' = [visited |-> walk.visited, missing |-> walk.missing,
                          train |-> args[1]]
    /\ call' = "predict_one"
    /\ UNCHANGED <<rows, attr_names, algo>>

\* generate_results_table.evaluate_algorithm(train, test, attr_names, algo,
\* positive_label)
CallEvaluate ==
    /\ call = "main"
    /\ \E test \in SeqsUpTo(Rows, MaxTest), positive_label \in Labels :
          LET train_examples == load_dataset(rows)
              test_examples == load_dataset(test)
          IN /\ args' = <<train_examples, test_examples, attr_names, algo,
                          positive_label>>
             /\ frame' = evaluate_frame(train_examples, test_examples,
                                        attr_names, algo, positive_label)
             /\ ret' = evaluate_return(frame')
    /\ call' = "evaluate_algorithm"
    /\ UNCHANGED <<rows, attr_names, algo>>

\* the activation records of the build in progress, innermost last
Stack == frame.stack
Top == Last(Stack)
SetTop(act) == [stack |-> Front(Stack) \o <<act>>]
Push(act) == [stack |-> Stack \o <<act>>]

\* an activation record entered, generate_results_table.build_tree:
\* main calls build_tree(examples, attr_names, algo)
BuildTreeCall ==
    /\ call = "main"
    /\ call' = "build_tree_running"
    /\ args' = <<load_dataset(rows), attr_names, algo>>
    /\ frame' = [stack |-> <<Activation(load_dataset(rows), attr_names)>>]
    /\ UNCHANGED <<rows, attr_names, algo, ret>>

\* the innermost activation runs from its entry up to its loop over the
\* buckets, to a return statement, or to the raise, which unwinds every
\* activation
BuildTreeEnter ==
    /\ call = "build_tree_running"
    /\ Top.pc = "entry"
    /\ LET act == build_tree_enter(Top, algo)
       IN IF act.pc = "raise"
          THEN /\ call' = "build_tree"
               /\ ret' = Raise("ValueError")
               /\ frame' = [stack |-> <<>>]
          ELSE /\ frame' = SetTop(act)
               /\ UNCHANGED <<call, ret>>
    /\ UNCHANGED <<rows, attr_names, algo, args>>

\* one pass of the loop over the buckets: the recursive call on the next
\* bucket (or the majority leaf for an empty one); after the last pass,
\* return node
BuildTreeLoop ==
    /\ call = "build_tree_running"
    /\ Top.pc = "loop"
    /\ frame' =
         IF Top.todo = <<>> THEN SetTop(ReturnOf(Top, Top.node))
         ELSE IF Top.buckets.val[Head(Top.todo)] = <<>>
         THEN SetTop(AddChild(Top, Leaf(majority_label(Top.examples))))
         ELSE Push(Activation(Top.buckets.val[Head(Top.todo)],
                              Top.remaining_attrs))
    /\ UNCHANGED <<rows, attr_names, algo, call, args, ret>>

\* the innermost activation returns: to main, or into the caller's
\* node.children[value]
BuildTreeReturn ==
    /\ call = "build_tree_running"
    /\ Top.pc = "return"
    /\ IF Len(Stack) = 1
       THEN /\ call' = "build_tree"
            /\ ret' = Top.value
            /\ frame' = [stack |-> <<>>]
       ELSE /\ frame' = [stack |-> SubSeq(Stack, 1, Len(Stack) - 2)
                                     \o <<AddChild(Stack[Len(Stack) - 1],
                                                   Top.value)>>]
            /\ UNCHANGED <<call, ret>>
    /\ UNCHANGED <<rows, attr_names, algo, args>>

\* plot_id3_tree.build_tree(data, attr_names, available_attrs, algo) called
\* by main
PlotBuildTreeCall ==
    /\ call = "main"
    /\ call' = "plot_build_tree_running"
    /\ LET examples == plot_load_dataset(rows)
           available_attrs == [i \in 1..Len(attr_names) |-> IndexOf(attr_names[i])]
       IN /\ args' = <<examples, Header, available_attrs, algo>>
          /\ frame' = [stack |-> <<plot_Activation(examples, available_attrs)>>]
    /\ UNCHANGED <<rows, attr_names, algo, ret>>

PlotBuildTreeEnter ==
    /\ call = "plot_build_tree_running"
    /\ Top.pc = "entry"
    /\ LET act == plot_build_tree_enter(Top, args[2], algo)
       IN IF act.pc = "raise"
          THEN /\ call' = "plot_build_tree"
               /\ ret' = Raise("ValueError")
               /\ frame' = [stack |-> <<>>]
          ELSE /\ frame' = SetTop(act)
               /\ UNCHANGED <<call, ret>>
    /\ UNCHANGED <<rows, attr_names, algo, args>>

PlotBuildTreeLoop ==
    /\ call = "plot_build_tree_running"
    /\ Top.pc = "loop"
    /\ IF Top.todo = <<>>
       THEN /\ frame' = SetTop(ReturnOf(Top, Top.node))
            /\ UNCHANGED <<call, ret>>
       ELSE IF Top.buckets.val[Head(Top.todo)] # <<>>
       THEN /\ frame' = Push(plot_Activation(Top.buckets.val[Head(Top.todo)],
                                             Top.remaining_attrs))
            /\ UNCHANGED <<call, ret>>
       ELSE IF IsRaised(plot_majority_leaf(Top.examples))
       THEN /\ call' = "plot_build_tree"
            /\ ret' = Raise("ValueError")
            /\ frame' = [stack |-> <<>>]
       ELSE /\ frame' = SetTop(AddChild(Top, plot_majority_leaf(Top.examples)))
            /\ UNCHANGED <<call, ret>>
    /\ UNCHANGED <<rows, attr_names, algo, args>>

PlotBuildTreeReturn ==
    /\ call = "plot_build_tree_running"
    /\ Top.pc = "return"
    /\ IF Len(Stack) = 1
       THEN /\ call' = "plot_build_tree"
            /\ ret' = Top.value
            /\ frame' = [stack |-> <<>>]
       ELSE /\ frame' = [stack |-> SubSeq(Stack, 1, Len(Stack) - 2)
                                     \o <<AddChild(Stack[Len(Stack) - 1],
                                                   Top.value)>>]
            /\ UNCHANGED <<call, ret>>
    /\ UNCHANGED <<rows, attr_names, algo, args>>

\* the partitioner alone, in either script
InitSplit ==
    /\ rows \in SeqsUpTo(Rows, MaxLen)
    /\ attr_names = Header
    /\ algo = "id3"
    /\ call = "main"
    /\ args = <<>>
    /\ ret = None
    /\ frame = <<>>

NextSplit == CallSplit \/ CallPlotSplit

SpecSplit == InitSplit /\ [][NextSplit]_vars

\* the tree builder of either script
Next == CallBuildTree \/ CallPlotBuildTree

Spec == Init /\ [][Next]_vars

\* build, then predict on the built tree
NextPredict == CallBuildTree \/ CallPredictOne

InitPredict == InitOf(MaxPredictTrain, AttrLists)

SpecPredict == InitPredict /\ [][NextPredict]_vars

\* the evaluator, called as main does with every attribute of the header
InitEval == InitOf(MaxEvalTrain, {Header})

NextEval == CallEvaluate

SpecEval == InitEval /\ [][NextEval]_vars

\* the tree builder of either script, one activation step at a time
NextSteps ==
    \/ BuildTreeCall
    \/ BuildTreeEnter
    \/ BuildTreeLoop
    \/ BuildTreeReturn
    \/ PlotBuildTreeCall
    \/ PlotBuildTreeEnter
    \/ PlotBuildTreeLoop
    \/ PlotBuildTreeReturn

\* main before the call; nothing has been returned yet
NoReturn == [returned |-> FALSE]

InitSteps ==
    /\ rows \in SeqsUpTo(Rows, MaxLen)
    /\ attr_names \in AttrLists
    /\ algo \in Algos \cup {UnknownAlgo}
    /\ call = "main"
    /\ args = <<>>
    /\ ret = NoReturn
    /\ frame = [stack |-> <<>>]

SpecSteps == InitSteps /\ [][NextSteps]_vars

\* ---------------------------------------------------------------- properties
IsBuild == call \in {"build_tree", "plot_build_tree"}

\* the class labels present in the example list of the current call
CallLabels == Range(LabelsOf(args[1]))

Count(examples, l) ==
    Cardinality({i \in 1..Len(examples) : examples[i].label = l})

FirstIndex(examples, l) ==
    CHOOSE i \in 1..Len(examples) :
        /\ examples[i].label = l
        /\ \A j \in 1..(i - 1) : examples[j].label # l

\* l is the most frequent label of examples and, among the labels of maximal
\* count, the one that occurs first
IsMajorityFirst(examples, l) ==
    /\ l \in Range(LabelsOf(examples))
    /\ \A m \in Range(LabelsOf(examples)) :
          \/ Count(examples, m) < Count(examples, l)
          \/ /\ Count(examples, m) = Count(examples, l)
             /\ FirstIndex(examples, l) <= FirstIndex(examples, m)

\* every available attribute scores at or below 1e-9 on the call's examples
BestScoreNotPositive ==
    IF call = "build_tree"
    THEN \A a \in Range(args[2]) :
            RLeqPow10(criterion_score(args[1], a, args[3]), 9)
    ELSE \A i \in Range(args[3]) :
            RLeqPow10(plot_criterion_score(args[1], i, args[4]), 9)

\* C1: for each of the four criteria, examples with at least two distinct
\* class labels and a non-empty attribute list: when no available attribute
\* scores above 1e-9, build_tree of either script returns the majority-label
\* Leaf, not a Decision node.
C1_NoSplitOnNonPositiveScore ==
    (/\ IsBuild
     /\ algo \in Algos
     /\ attr_names # <<>>
     /\ Cardinality(CallLabels) >= 2
     /\ BestScoreNotPositive)
    => /\ ~IsRaised(ret)
       /\ ret.is_leaf
       /\ IsMajorityFirst(args[1], ret.label)

\* C2: build_tree of either script on an empty example list, with any
\* attribute list and any of the four criteria, returns a Leaf whose label is
\* a class label: it does not raise, returns no Decision node and no Leaf
\* labelled None.
C2_EmptyExamplesGiveLabelledLeaf ==
    (IsBuild /\ algo \in Algos /\ rows = <<>>)
    => /\ ~IsRaised(ret)
       /\ ret.is_leaf
       /\ ret.label \in Labels

\* C3: build_tree of either script raises for a criterion name outside
\* {id3, c45, cart, chaid}, whatever the examples and the attribute list.
C3_UnknownCriterionRaises ==
    (IsBuild /\ algo \notin Algos) => IsRaised(ret)

\* C4: for a non-empty example list whose examples all carry one class label,
\* each of the four criteria and every attribute list, build_tree of either
\* script returns the childless Leaf of that label and evaluates no criterion
\* score.
C4_PureExamplesGiveLeaf ==
    (IsBuild /\ algo \in Algos /\ rows # <<>> /\ Cardinality(CallLabels) = 1)
    => /\ ~IsRaised(ret)
       /\ ret.is_leaf
       /\ ret.label \in CallLabels
       /\ DOMAIN ret.children = {}
       /\ frame.evals = 0

\* a pure call of the plot script that had attributes to split on: two
\* attributes available, the first of them taking two values in the examples
C4_Witness ==
    /\ call = "plot_build_tree"
    /\ algo = "c45"
    /\ Len(attr_names) = 2
    /\ Len(rows) = 3
    /\ CallLabels = {"No"}
    /\ Cardinality({args[1][i].attrs[1] : i \in 1..Len(args[1])}) = 2
    /\ ret.is_leaf
    /\ ret.label = "No"

\* C5: for a non-empty example list with at least two distinct class labels
\* and an empty attribute list, build_tree of either script returns the Leaf
\* of the most frequent class label, the first-occurring one among the labels
\* of maximal count.
C5_NoAttributesGiveMajorityLeaf ==
    (IsBuild /\ attr_names = <<>> /\ Cardinality(CallLabels) >= 2)
    => /\ ~IsRaised(ret)
       /\ ret.is_leaf
       /\ IsMajorityFirst(args[1], ret.label)

\* a tie between two labels, resolved for the label of the first example
\* although the other label is the last seen
C5_Witness ==
    /\ call = "build_tree"
    /\ attr_names = <<>>
    /\ Len(rows) = 2
    /\ LabelsOf(args[1]) = <<"Yes", "No">>
    /\ ret.is_leaf
    /\ ret.label = "Yes"

\* the value the attribute mapping holds for a Decision node's attribute
QueryValue(node) == args[2][node.attr]

\* C6: predict_one starts at the root and descends, at each Decision node,
\* to the child keyed by the input's value for the node's attribute; at the
\* first Decision node without such a child it stops and returns the
\* caller's default label; otherwise it ends on a Leaf and returns that
\* Leaf's label.
C6_PredictFollowsPathOrDefaults ==
    call = "predict_one"
    => /\ frame.visited[1] = args[1]
       /\ \A i \in 1..(Len(frame.visited) - 1) :
             /\ ~frame.visited[i].is_leaf
             /\ QueryValue(frame.visited[i]) \in DOMAIN frame.visited[i].children
             /\ frame.visited[i + 1]
                  = frame.visited[i].children[QueryValue(frame.visited[i])]
       /\ IF Last(frame.visited).is_leaf
          THEN ~frame.missing /\ ret = Last(frame.visited).label
          ELSE /\ frame.missing
               /\ QueryValue(Last(frame.visited))
                    \notin DOMAIN Last(frame.visited).children
               /\ ret = args[3]

\* a walk that descends one level and meets the missing branch at the second
\* Decision node, returning a default that is not the training majority
C6_Witness ==
    /\ call = "predict_one"
    /\ Len(frame.visited) = 2
    /\ frame.missing
    /\ ~frame.visited[2].is_leaf
    /\ majority_label(frame.train) = "Yes"
    /\ args[3] = "No"
    /\ ret = "No"

\* the training examples that reach the node predict_one stopped at
ReachedBy ==
    {j \in 1..Len(frame.train) :
        \A k \in 1..(Len(frame.visited) - 1) :
            frame.train[j].attrs[frame.visited[k].attr]
              = QueryValue(frame.visited[k])}

\* C7: on the tree built from a training set, predict_one on the attributes
\* of a training example ends on a Leaf, never on a missing branch, and when
\* the training examples reaching that Leaf all carry one class label (the
\* Leaf of a pure-class return) the label returned is the example's own.
C7_TrainingExampleReachesItsLeaf ==
    call = "predict_one"
    => \A i \in 1..Len(frame.train) :
          frame.train[i].attrs = args[2]
          => /\ ~frame.missing
             /\ Last(frame.visited).is_leaf
             /\ (Cardinality({frame.train[j].label : j \in ReachedBy}) = 1
                 => ret = frame.train[i].label)

\* a training example predicted through a Decision node to a pure Leaf whose
\* label is not the majority label of the training set
C7_Witness ==
    /\ call = "predict_one"
    /\ \E i \in 1..Len(frame.train) :
          /\ frame.train[i].attrs = args[2]
          /\ frame.train[i].label = ret
          /\ frame.train[1].label # ret
    /\ Len(frame.visited) = 2
    /\ Cardinality({frame.train[j].label : j \in ReachedBy}) = 1
    /\ args[3] # ret

\* C8: for a non-empty test set evaluate_algorithm's F1 computation raises
\* no ZeroDivisionError, and the F1 returned is exactly 0 whenever the count
\* of true positives is 0, with or without false positives and negatives.
C8_F1ZeroWithoutTruePositives ==
    (call = "evaluate_algorithm" /\ args[2] # <<>> /\ ~IsRaised(frame.tree))
    => /\ ~IsRaised(ret)
       /\ (frame.tp = 0 => ret.f1 = Zero)

\* no true positive and one false positive
C8_Witness ==
    /\ call = "evaluate_algorithm"
    /\ ~IsRaised(frame.tree)
    /\ args[2] # <<>>
    /\ frame.tp = 0
    /\ frame.fp = 1
    /\ ret.f1 = Zero

\* the root-to-node paths of a tree, one per node
RECURSIVE TreePaths(_)
TreePaths(t) ==
    {<<>>} \cup UNION {{<<v>> \o p : p \in TreePaths(t.children[v])} :
                          v \in DOMAIN t.children}

\* C9: with one of the four criteria, evaluate_algorithm on an empty test set
\* returns accuracy 0, F1 0 and node count 0 whatever tree the training set
\* induces, and on a non-empty test set returns as node count the number of
\* nodes, Leaf and Decision, of the tree built from the training set.
C9_NodeCountZeroOnEmptyTest ==
    (call = "evaluate_algorithm" /\ algo \in Algos)
    => /\ ~IsRaised(ret)
       /\ IF args[2] = <<>>
          THEN ret.accuracy = Zero /\ ret.f1 = Zero /\ ret.nodes = 0
          ELSE ret.nodes = Cardinality(TreePaths(frame.tree))

\* an empty test set against a tree of three nodes
C9_Witness ==
    /\ call = "evaluate_algorithm"
    /\ algo = "cart"
    /\ args[2] = <<>>
    /\ Cardinality(TreePaths(frame.tree)) = 3
    /\ ret.nodes = 0

\* the value example ex holds for the attribute the current call splits on
SplitValue(ex) ==
    IF call = "split_by_attr" THEN ex.attrs[args[2]] ELSE ex.attrs[args[2] + 1]

\* C10: split_by_attr of either script keys its buckets by exactly the values
\* occurring in the input; the bucket of a value holds, in input order, the
\* input examples with that value and nothing else, so no bucket is empty,
\* the bucket sizes add up to the input size, and the empty input gives the
\* empty mapping.
C10_BucketsPartitionInput ==
    call \in {"split_by_attr", "plot_split_by_attr"}
    => /\ DOMAIN ret.val = {SplitValue(args[1][i]) : i \in 1..Len(args[1])}
       /\ Range(ret.keys) = DOMAIN ret.val
       /\ Len(ret.keys) = Cardinality(DOMAIN ret.val)
       /\ \A v \in DOMAIN ret.val :
             /\ ret.val[v] = SelectSeq(args[1], LAMBDA ex : SplitValue(ex) = v)
             /\ ret.val[v] # <<>>
       /\ SumNat([i \in 1..Len(ret.keys) |-> Len(ret.val[ret.keys[i]])])
            = Len(args[1])
       /\ (args[1] = <<>> => ret = EmptyDict)

\* three examples split into a bucket of two, not adjacent in the input, and
\* a bucket of one
C10_Witness ==
    /\ call = "split_by_attr"
    /\ Len(args[1]) = 3
    /\ ret.keys = <<"y", "x">>
    /\ Len(ret.val["y"]) = 2
    /\ Len(ret.val["x"]) = 1

\* the build of either script is in progress, activation records on the stack
IsRunning == call \in {"build_tree_running", "plot_build_tree_running"}

\* the available attributes the top-level call was given: attr_names in
\* generate_results_table.py, available_attrs in plot_id3_tree.py
TopAttrs ==
    IF call \in {"build_tree", "build_tree_running"} THEN args[2] ELSE args[3]

\* the attribute a Decision node tests
NodeAttr(n) ==
    IF call \in {"build_tree", "build_tree_running"} THEN n.attr
    ELSE n.attr_index

\* the node of tree t at the end of path p
RECURSIVE NodeAt(_, _)
NodeAt(t, p) == IF p = <<>> THEN t ELSE NodeAt(t.children[Head(p)], Tail(p))

\* the lengths of the prefixes of path p that end at a Decision node of t
DecisionsOn(t, p) == {k \in 0..Len(p) : ~NodeAt(t, SubSeq(p, 1, k)).is_leaf}

\* every activation below the innermost is in its loop, chose an attribute of
\* its own list, and handed its callee that list less exactly this attribute
OneAttributePerLevel ==
    \A k \in 1..(Len(Stack) - 1) :
        /\ Stack[k].pc = "loop"
        /\ NodeAttr(Stack[k].node) \in Range(Stack[k].attr_names)
        /\ NodeAttr(Stack[k].node) \notin Range(Stack[k].remaining_attrs)
        /\ Len(Stack[k].remaining_attrs) = Len(Stack[k].attr_names) - 1
        /\ Range(Stack[k].remaining_attrs) \subseteq Range(Stack[k].attr_names)
        /\ Stack[k + 1].attr_names = Stack[k].remaining_attrs

\* on every root-to-leaf path of the returned tree the Decision nodes test
\* pairwise distinct attributes of the top-level list, so there are at most
\* as many of them as the list has attributes
PathsConsumeAttributes ==
    \A p \in TreePaths(ret) :
        /\ \A k \in DecisionsOn(ret, p) :
              NodeAttr(NodeAt(ret, SubSeq(p, 1, k))) \in Range(TopAttrs)
        /\ \A j, k \in DecisionsOn(ret, p) :
              j # k => NodeAttr(NodeAt(ret, SubSeq(p, 1, j)))
                         # NodeAttr(NodeAt(ret, SubSeq(p, 1, k)))
        /\ Cardinality(DecisionsOn(ret, p)) <= Len(TopAttrs)

\* the step-by-step build ends with what build_tree, computed in one piece,
\* returns
StepsAgreeWithBuildTree ==
    /\ call = "build_tree" => ret = build_tree(args[1], args[2], args[3])
    /\ call = "plot_build_tree"
       => ret = plot_build_tree(args[1], args[2], args[3], args[4])

\* an upper bound on the steps an activation entered with e examples and a
\* attributes takes, its callees included
EntryCost(e, a) == 3 + 4 * a * e

\* the steps left to the activation act: its passes over the buckets not yet
\* started (each one a call), the pass that leaves the loop and the return
StepsLeft(act, innermost) ==
    IF act.pc = "entry"
    THEN EntryCost(Len(act.examples), Len(act.attr_names))
    ELSE IF act.pc = "return" THEN 1
    ELSE 2 + SumNat([i \in 1..Len(IF innermost THEN act.todo
                                  ELSE Tail(act.todo)) |->
                1 + EntryCost(Len(act.buckets.val[
                                    (IF innermost THEN act.todo
                                     ELSE Tail(act.todo))[i]]),
                              Len(act.remaining_attrs))])

\* the variant of the build: a bound on the steps left before it ends
Variant ==
    IF call = "main" THEN 1 + EntryCost(Len(rows), Len(attr_names))
    ELSE IF IsRunning
    THEN SumNat([k \in 1..Len(Stack) |-> StepsLeft(Stack[k], k = Len(Stack))])
    ELSE 0

\* a step of a build under one of the four criteria lowers the variant
VariantDecreases == algo \in Algos => Variant' < Variant

C11_StateInvariant ==
    algo \in Algos
    => /\ IsRunning
          => /\ Stack # <<>>
             /\ Top.pc \in {"entry", "loop", "return"}
             /\ Stack[1].attr_names = TopAttrs
             /\ Len(Stack) <= Len(TopAttrs) + 1
             /\ OneAttributePerLevel
       /\ IsBuild
          => IF IsRaised(ret)
             THEN call = "plot_build_tree" /\ args[1] = <<>>
             ELSE PathsConsumeAttributes

\* C11: with one of the four criteria, build_tree of either script, run one
\* activation step at a time from any example list and attribute list,
\* terminates: a build in progress can always take a step and every step
\* lowers a natural-number bound on the steps left, so it ends (it returns a
\* tree or, in plot_id3_tree.py on an empty example list, raises).  While it
\* runs, each recursive call was handed its caller's attribute list less
\* exactly the attribute the caller split on, so the stack is never deeper
\* than the attribute list is long plus one; and in the tree returned no
\* attribute labels two Decision nodes of one root-to-leaf path, every
\* Decision attribute is in the top-level list, and a path holds at most as
\* many Decision nodes as that list has attributes.
C11_BuildTreeTerminatesOneAttributePerLevel ==
    /\ []C11_StateInvariant
    /\ [][VariantDecreases]_vars

\* a build by generate_results_table.py that ended with a tree whose root
\* has two branches and in which a path of two Decision nodes uses up both
\* attributes
C11_Witness ==
    /\ call = "build_tree"
    /\ algo = "id3"
    /\ frame = [stack |-> <<>>]
    /\ Len(args[2]) = 2
    /\ ~IsRaised(ret)
    /\ Cardinality(DOMAIN ret.children) = 2
    /\ \E p \in TreePaths(ret) : Cardinality(DecisionsOn(ret, p)) = 2
====
